---------------------------- MODULE Spec2Model ----------------------------
(***************************************************************************)
(* News-Sentiment-Stock-Analyzer: the menu loop and analyze_company of     *)
(* src/src/main.py, the news collector, the sentiment analyzer and the     *)
(* stock data fetcher, as state machines.                                  *)
(*                                                                         *)
(* Representation.                                                         *)
(*  - A Python str is a sequence of one-character strings.                 *)
(*  - A value read from a JSON object or a dict is a record                *)
(*    [t |-> "absent"] (no such key), [t |-> "null"] (None) or             *)
(*    [t |-> "str", v |-> chars].                                          *)
(*  - Python None is the record None; an exception is a record of kind     *)
(*    "raise".                                                             *)
(*  - A compound score is an integer number of hundredths (0.05 is 5). A   *)
(*    mean is the exact fraction [num, den] of hundredths.                 *)
(*  - A close price is an integer number of mills (1/1000 of a dollar); a  *)
(*    value rounded to 2 decimals is an integer number of hundredths.      *)
(***************************************************************************)
EXTENDS Integers, Sequences, FiniteSets, TLC

VARIABLES
    pc,              \* where the control of main_menu / analyze_company is
    mode,            \* which menu choice called analyze_company
    companies,       \* main_menu choice 3: companies
    queue,           \* main_menu choice 3: the companies the for loop has not reached
    search_history,  \* NewsStockAnalyzer.search_history
    company,         \* analyze_company: company_name
    articles,        \* analyze_company: articles
    lib_scores,      \* what the sentiment libraries answer for each text
    sentiments,      \* analyze_company: sentiments
    counts,          \* analyze_company: positive_count, negative_count, neutral_count
    avg_sentiment,   \* analyze_company: avg_sentiment
    stock_history,   \* analyze_company: stock_history
    current_price,   \* analyze_company: current_price
    price_changes,   \* analyze_company: price_changes
    report,          \* what display_results has printed, section by section
    trace,           \* the calls analyze_company has made, in order
    invoked,         \* the company_name of every analyze_company call so far
    arg,             \* the argument of the function a function-level specification applies
    ret,             \* its result
    prev             \* the result of the application before

vars == <<pc, mode, companies, queue, search_history, company, articles, lib_scores,
          sentiments, counts, avg_sentiment, stock_history, current_price,
          price_changes, report, trace, invoked, arg, ret, prev>>

progVars == <<pc, mode, companies, queue, search_history, company, articles, lib_scores,
              sentiments, counts, avg_sentiment, stock_history, current_price,
              price_changes, report, trace, invoked>>

fnVars == <<arg, ret, prev>>

-----------------------------------------------------------------------------
(* Python values *)

None == [kind |-> "None"]

Absent == [t |-> "absent"]

Null == [t |-> "null"]

Str(s) == [t |-> "str", v |-> s]

Pending == [kind |-> "pending"]

Raise(e) == [kind |-> "raise", exc |-> e]

\* d.get(key, default): the default only when the key is absent; a null stays
DictGet(field, default) == IF field.t = "absent" THEN default ELSE field

\* f"{x}": None prints as the four characters None
Format(x) == IF x.t = "null" THEN <<"N", "o", "n", "e">> ELSE x.v

Range(s) == {s[i] : i \in 1..Len(s)}

Min(a, b) == IF a < b THEN a ELSE b

\* s[:n]
Take(s, n) == SubSeq(s, 1, Min(n, Len(s)))

-----------------------------------------------------------------------------
(* str methods, over ASCII *)

LowerCase == <<"a", "b", "c", "d", "e", "f", "g", "h", "i", "j", "k", "l", "m",
               "n", "o", "p", "q", "r", "s", "t", "u", "v", "w", "x", "y", "z">>

UpperCase == <<"A", "B", "C", "D", "E", "F", "G", "H", "I", "J", "K", "L", "M",
               "N", "O", "P", "Q", "R", "S", "T", "U", "V", "W", "X", "Y", "Z">>

LowerLetters == Range(LowerCase)

UpperLetters == Range(UpperCase)

ToUpper ==
    [c \in LowerLetters |->
        UpperCase[CHOOSE i \in 1..Len(LowerCase) : LowerCase[i] = c]]

ToLower ==
    [c \in UpperLetters |->
        LowerCase[CHOOSE i \in 1..Len(UpperCase) : UpperCase[i] = c]]

IsAlphaChar(c) == c \in LowerLetters \/ c \in UpperLetters

UpperChar(c) == IF c \in LowerLetters THEN ToUpper[c] ELSE c

LowerChar(c) == IF c \in UpperLetters THEN ToLower[c] ELSE c

\* str.upper()
Upper(s) == [i \in 1..Len(s) |-> UpperChar(s[i])]

\* str.lower()
Lower(s) == [i \in 1..Len(s) |-> LowerChar(s[i])]

\* str.isalpha(): at least one character, and every character a letter
IsAlpha(s) == Len(s) > 0 /\ \A i \in 1..Len(s) : IsAlphaChar(s[i])

RECURSIVE Replace(_, _, _)
\* str.replace(old, new) for a one-character old
Replace(s, old, new) ==
    IF s = <<>> THEN <<>>
    ELSE (IF Head(s) = old THEN new ELSE <<Head(s)>>) \o Replace(Tail(s), old, new)

RECURSIVE LStrip(_)
LStrip(s) == IF s # <<>> /\ Head(s) = " " THEN LStrip(Tail(s)) ELSE s

RECURSIVE RStrip(_)
RStrip(s) ==
    IF s # <<>> /\ s[Len(s)] = " " THEN RStrip(SubSeq(s, 1, Len(s) - 1)) ELSE s

\* str.strip()
Strip(s) == RStrip(LStrip(s))

RECURSIVE Split(_, _)
\* str.split(sep) for a one-character sep: always at least one field
Split(s, sep) ==
    IF \A i \in 1..Len(s) : s[i] # sep THEN <<s>>
    ELSE LET k == CHOOSE i \in 1..Len(s) :
                      s[i] = sep /\ \A j \in 1..(i - 1) : s[j] # sep
         IN <<SubSeq(s, 1, k - 1)>> \o Split(SubSeq(s, k + 1, Len(s)), sep)

-----------------------------------------------------------------------------
(* stock_data.py: the financial service, validate_ticker, search_ticker *)

\* stock.info for a symbol the service does not know: a dict without longName
NoEntity == [kind |-> "info", empty |-> FALSE, longName |-> Absent]

\* stock.info is None or {}
EmptyInfo == [kind |-> "info", empty |-> TRUE, longName |-> Absent]

InfoWith(name) == [kind |-> "info", empty |-> FALSE, longName |-> name]

AcmeInc == <<"A", "c", "m", "e">>

\* The financial service is a function from symbols to what reading stock.info
\* does for that symbol; a symbol outside its domain is unknown to it.
ServiceInfo(service, symbol) ==
    IF symbol \in DOMAIN service THEN service[symbol] ELSE NoEntity

\* A plausible slip: a long name counts only when it is a non-empty string
validate_ticker_nonempty(ticker_symbol, service) ==
    LET info == ServiceInfo(service, Upper(ticker_symbol))
    IN IF info.kind = "raise" THEN [valid |-> FALSE]
       ELSE IF ~info.empty /\ info.longName.t = "str" /\ info.longName.v # <<>>
            THEN [valid |-> TRUE, ticker |-> Upper(ticker_symbol),
                  name |-> info.longName]
            ELSE [valid |-> FALSE]

\* A plausible slip: the except clause is missing, the lookup's exception escapes
validate_ticker_propagates(ticker_symbol, service) ==
    LET info == ServiceInfo(service, Upper(ticker_symbol))
    IN IF info.kind = "raise" THEN info
       ELSE IF ~info.empty /\ info.longName.t # "absent"
            THEN [valid |-> TRUE, ticker |-> Upper(ticker_symbol),
                  name |-> DictGet(info.longName, Str(<<"U">>))]
            ELSE [valid |-> FALSE]

\* validate_ticker: `info and 'longName' in info`, any exception is not valid.
\* sector, industry, market_cap and exchange are copied through and left out.
validate_ticker(ticker_symbol, service) ==
    LET info == ServiceInfo(service, Upper(ticker_symbol))
    IN IF info.kind = "raise" THEN [valid |-> FALSE]
       ELSE IF ~info.empty /\ info.longName.t # "absent"
            THEN [valid |-> TRUE, ticker |-> Upper(ticker_symbol),
                  name |-> DictGet(info.longName,
                                   Str(<<"U", "n", "k", "n", "o", "w", "n", " ",
                                         "C", "o", "m", "p", "a", "n", "y">>))]
            ELSE [valid |-> FALSE]

\* self.common_names, in insertion order
common_names ==
    << [name |-> <<"A", "p", "p", "l", "e">>, ticker |-> <<"A", "A", "P", "L">>],
       [name |-> <<"M", "i", "c", "r", "o", "s", "o", "f", "t">>,
        ticker |-> <<"M", "S", "F", "T">>],
       [name |-> <<"G", "o", "o", "g", "l", "e">>,
        ticker |-> <<"G", "O", "O", "G", "L">>],
       [name |-> <<"A", "m", "a", "z", "o", "n">>, ticker |-> <<"A", "M", "Z", "N">>],
       [name |-> <<"T", "e", "s", "l", "a">>, ticker |-> <<"T", "S", "L", "A">>],
       [name |-> <<"M", "e", "t", "a">>, ticker |-> <<"M", "E", "T", "A">>],
       [name |-> <<"F", "a", "c", "e", "b", "o", "o", "k">>,
        ticker |-> <<"M", "E", "T", "A">>] >>

\* len(query) <= 5 in Method 1
DirectLen == 5

\* len(variant) <= 10 in Method 3
VariantLen == 10

\* A plausible slip: the '.' variant is tried before the '-' variant
VariationsSwapped(query) ==
    << Upper(query),
       Replace(Upper(query), " ", <<".">>),
       Replace(Upper(query), " ", <<"-">>),
       Replace(Upper(query), " ", <<>>) >>

\* Method 3's list, in its order
Variations(query) ==
    << Upper(query),
       Replace(Upper(query), " ", <<"-">>),
       Replace(Upper(query), " ", <<".">>),
       Replace(Upper(query), " ", <<>>) >>

\* A plausible slip: Method 1 takes queries of any length
IsDirectAnyLen(query) ==
    IsAlpha(Replace(Replace(query, ".", <<>>), "-", <<>>))

\* Method 1's guard
IsDirect(query) ==
    Len(query) <= DirectLen /\ IsAlpha(Replace(Replace(query, ".", <<>>), "-", <<>>))

RECURSIVE TryVariations(_, _, _, _)
\* Method 3's loop from variant i on, then Method 4. asked: the symbols sent
\* to the service so far.
TryVariations(query, service, i, asked) ==
    LET variations == Variations(query)
    IN IF i > Len(variations)
       THEN [ticker |-> Upper(query), asked |-> asked, table |-> TRUE,
             verified |-> FALSE]
       ELSE IF Len(variations[i]) <= VariantLen
            THEN LET ticker_check == validate_ticker(variations[i], service)
                     asked2 == Append(asked, Upper(variations[i]))
                 IN IF ticker_check.valid
                    THEN [ticker |-> ticker_check.ticker, asked |-> asked2,
                          table |-> TRUE, verified |-> TRUE]
                    ELSE TryVariations(query, service, i + 1, asked2)
            ELSE TryVariations(query, service, i + 1, asked)

\* search_ticker. The result carries, beside the ticker returned, the symbols
\* sent to the service in order (asked), whether the common-name loop ran
\* (table) and whether the ticker was validated (verified).
search_ticker(query0, service) ==
    LET query == Strip(query0)
        direct == IsDirect(query)
        asked1 == IF direct THEN <<Upper(query)>> ELSE <<>>
        matches == {i \in 1..Len(common_names) :
                        Lower(query) = Lower(common_names[i].name)}
    IN IF direct /\ validate_ticker(query, service).valid
       THEN [ticker |-> validate_ticker(query, service).ticker,
             asked |-> asked1, table |-> FALSE, verified |-> TRUE]
       ELSE IF matches # {}
            THEN [ticker |-> common_names[CHOOSE i \in matches :
                                              \A j \in matches : i <= j].ticker,
                  asked |-> asked1, table |-> TRUE, verified |-> FALSE]
            ELSE TryVariations(query, service, 1, asked1)

\* get_stock_ticker
get_stock_ticker(company_name, service) == search_ticker(company_name, service)

-----------------------------------------------------------------------------
(* stock_data.py: get_stock_data, get_current_price, calculate_price_change *)

Float(x) == [kind |-> "float", v |-> x]

Return(x) == [kind |-> "return", value |-> x]

\* a pandas DataFrame of daily bars in date order; only Close is read
DataFrame(closes) == [kind |-> "df", close |-> closes]

\* num / den rounded to the nearest integer, a tie to the even one (den > 0)
RoundHalfEven(num, den) ==
    LET q == num \div den
        r == num - q * den
    IN IF 2 * r < den THEN q
       ELSE IF 2 * r > den THEN q + 1
       ELSE IF q % 2 = 0 THEN q ELSE q + 1

\* round(x, 2) of a price in mills, as hundredths of a dollar
RoundCents(mills) == RoundHalfEven(mills, 10)

\* stock.history(...) for a ticker: bars maps tickers to a DataFrame or an
\* exception; a ticker outside its domain has no bars
Bars(bars, ticker) ==
    IF ticker \in DOMAIN bars THEN bars[ticker] ELSE DataFrame(<<>>)

\* A plausible slip: the except clause is missing
get_stock_data_propagates(company_name, service, bars) ==
    LET ticker == get_stock_ticker(company_name, service).ticker
        hist == Bars(bars, ticker)
    IN IF hist.kind = "raise" THEN hist
       ELSE IF hist.close = <<>> THEN Return(None)
       ELSE Return(hist)

\* get_stock_data. service: the financial service's entity info; bars: what
\* stock.history(start, end) does for each ticker. The ticker is resolved
\* before the try; every exception of the fetch is caught. The inner try
\* around stock.info only prints.
get_stock_data(company_name, service, bars) ==
    LET ticker == get_stock_ticker(company_name, service).ticker
        hist == Bars(bars, ticker)
    IN IF hist.kind = "raise" THEN Return(None)
       ELSE IF hist.close = <<>> THEN Return(None)
       ELSE Return(hist)

\* get_current_price. bars: what stock.history(period='1d') does for each
\* ticker.
get_current_price(company_name, service, bars) ==
    LET ticker == get_stock_ticker(company_name, service).ticker
        data == Bars(bars, ticker)
    IN IF data.kind = "raise" THEN Return(None)
       ELSE IF data.close # <<>>
            THEN Return(Float(RoundCents(data.close[Len(data.close)])))
            ELSE Return(None)

SeqMax(s) == CHOOSE x \in Range(s) : \A y \in Range(s) : y <= x

SeqMin(s) == CHOOSE x \in Range(s) : \A y \in Range(s) : x <= y

\* A plausible slip: the change is taken from the lowest to the highest close
calculate_price_change_minmax(stock_data) ==
    IF stock_data = None \/ stock_data.close = <<>> THEN None
    ELSE LET first_price == SeqMin(stock_data.close)
             last_price == SeqMax(stock_data.close)
             price_change == last_price - first_price
         IN [kind |-> "dict",
             first_price |-> RoundCents(first_price),
             last_price |-> RoundCents(last_price),
             price_change |-> RoundCents(price_change),
             percent_change |-> RoundHalfEven(price_change * 10000, first_price),
             trend |-> IF price_change > 0 THEN "UP" ELSE "DOWN"]

\* A plausible slip: the trend is read off the rounded change
calculate_price_change_rounded_trend(stock_data) ==
    IF stock_data = None \/ stock_data.close = <<>> THEN None
    ELSE LET first_price == stock_data.close[1]
             last_price == stock_data.close[Len(stock_data.close)]
             price_change == last_price - first_price
         IN [kind |-> "dict",
             first_price |-> RoundCents(first_price),
             last_price |-> RoundCents(last_price),
             price_change |-> RoundCents(price_change),
             percent_change |-> RoundHalfEven(price_change * 10000, first_price),
             trend |-> IF RoundCents(price_change) > 0 THEN "UP" ELSE "DOWN"]

\* calculate_price_change. percent_change is (price_change / first_price) * 100
\* rounded to 2 decimals: in hundredths of a percent,
\* price_change * 10000 / first_price rounded to an integer.
calculate_price_change(stock_data) ==
    IF stock_data = None \/ stock_data.close = <<>> THEN None
    ELSE LET first_price == stock_data.close[1]
             last_price == stock_data.close[Len(stock_data.close)]
             price_change == last_price - first_price
         IN [kind |-> "dict",
             first_price |-> RoundCents(first_price),
             last_price |-> RoundCents(last_price),
             price_change |-> RoundCents(price_change),
             percent_change |-> RoundHalfEven(price_change * 10000, first_price),
             trend |-> IF price_change > 0 THEN "UP" ELSE "DOWN"]

-----------------------------------------------------------------------------
(* sentiment_analyzer.py *)

\* score >= 0.05
PositiveLabel == 5

\* score <= -0.05
NegativeLabel == -5

\* A plausible slip: the boundaries are exclusive
get_sentiment_label_strict(score) ==
    IF score > PositiveLabel THEN "POSITIVE"
    ELSE IF score < NegativeLabel THEN "NEGATIVE"
    ELSE "NEUTRAL"

\* _get_sentiment_label
get_sentiment_label(score) ==
    IF score >= PositiveLabel THEN "POSITIVE"
    ELSE IF score <= NegativeLabel THEN "NEGATIVE"
    ELSE "NEUTRAL"

\* A plausible slip: the label is taken from the TextBlob polarity
analyze_text_textblob(text, lib) ==
    IF text = <<>> THEN None
    ELSE [kind |-> "dict",
          textblob_score |-> lib.textblob_score,
          vader_positive |-> lib.pos,
          vader_negative |-> lib.neg,
          vader_neutral |-> lib.neu,
          vader_compound |-> lib.compound,
          overall_sentiment |-> get_sentiment_label(lib.textblob_score)]

\* analyze_text. lib: what TextBlob(text).sentiment.polarity and
\* vader.polarity_scores(text) answer for this text.
analyze_text(text, lib) ==
    IF text = <<>> THEN None
    ELSE [kind |-> "dict",
          textblob_score |-> lib.textblob_score,
          vader_positive |-> lib.pos,
          vader_negative |-> lib.neg,
          vader_neutral |-> lib.neu,
          vader_compound |-> lib.compound,
          overall_sentiment |-> get_sentiment_label(lib.compound)]

NoTitle == <<"N", "o", " ", "t", "i", "t", "l", "e">>

Unknown == <<"U", "n", "k", "n", "o", "w", "n">>

\* analyze_article: f"{article.get('title', '')} {article.get('description', '')}"
ArticleText(article) ==
    Format(DictGet(article.title, Str(<<>>))) \o <<" ">>
        \o Format(DictGet(article.description, Str(<<>>)))

\* analyze_article. article.get('source', {}) is None for a null source, and
\* None.get raises AttributeError; analyze_text has run by then.
analyze_article(article, lib) ==
    LET text == ArticleText(article)
        sentiment == analyze_text(text, lib)
    IN IF article.source.t = "null" THEN Raise("AttributeError")
       ELSE [kind |-> "dict",
             title |-> DictGet(article.title, Str(NoTitle)),
             source |-> IF article.source.t = "absent" THEN Str(Unknown)
                        ELSE DictGet(article.source.name, Str(Unknown)),
             sentiment |-> sentiment]

-----------------------------------------------------------------------------
(* news_collector.py *)

\* response.status_code == 200
StatusOK == 200

\* A plausible slip: the status is not checked
get_news_for_company_any_status(company_name, response) ==
    IF response.kind = "raise" THEN Return(<<>>)
    ELSE IF response.body.json # "object" THEN Return(<<>>)
    ELSE IF response.body.articles.t = "absent" THEN Return(<<>>)
    ELSE IF response.body.articles.t = "null" THEN Return(<<>>)
    ELSE Return(response.body.articles.v)

\* get_news_for_company. response: what requests.get does, an exception or a
\* status with a body. body.json is "invalid" (response.json() raises),
\* "other" (valid JSON that is no object: data.get raises) or "object".
\* For a null articles value len(articles) raises. Every exception inside
\* the try returns [].
get_news_for_company(company_name, response) ==
    IF response.kind = "raise" THEN Return(<<>>)
    ELSE IF response.status_code = StatusOK
         THEN IF response.body.json # "object" THEN Return(<<>>)
              ELSE IF response.body.articles.t = "absent" THEN Return(<<>>)
              ELSE IF response.body.articles.t = "null" THEN Return(<<>>)
              ELSE Return(response.body.articles.v)
         ELSE Return(<<>>)

-----------------------------------------------------------------------------
(* main.py: display_results *)

\* a mean of compound scores: num / den hundredths, den > 0
Frac(num, den) == [kind |-> "frac", num |-> num, den |-> den]

\* avg_sentiment > 0.1 in the summary
OverallPositive == 10

\* avg_sentiment < -0.1 in the summary
OverallNegative == -10

\* avg_sentiment > 0.1 in the conclusion
NewsPositive == 10

\* avg_sentiment < -0.1 in the conclusion
NewsNegative == -10

\* avg > bound and avg < bound for a fraction and a number of hundredths
FracGT(avg, bound) == avg.num > bound * avg.den

FracLT(avg, bound) == avg.num < bound * avg.den

Bullish == "Positive news & Rising stock = Bullish"

NotRising == "Positive news but stock not rising yet"

Bearish == "Negative news + Falling stock = Bearish"

HoldingSteady == "Negative news but stock holding steady"

NoSignal == "Neutral sentiment - No strong signals"

Narratives == {Bullish, NotRising, Bearish, HoldingSteady, NoSignal}

Line(section, text) == [section |-> section, text |-> text]

\* A plausible slip: a flat week counts as rising and as falling
Conclusion_inclusive(avg, changes) ==
    IF FracGT(avg, NewsPositive)
    THEN IF changes # None /\ changes.percent_change >= 0
         THEN <<Line("conclusion", Bullish)>>
         ELSE <<Line("conclusion", NotRising)>>
    ELSE IF FracLT(avg, NewsNegative)
         THEN IF changes # None /\ changes.percent_change <= 0
              THEN <<Line("conclusion", Bearish)>>
              ELSE <<Line("conclusion", HoldingSteady)>>
         ELSE <<Line("conclusion", NoSignal)>>

\* display_results, the conclusion. A price_changes dict is never empty, so
\* `price_changes and ...` tests it for None. Each branch prints its
\* headline and one line of advice; the headline is kept.
Conclusion(avg, changes) ==
    IF FracGT(avg, NewsPositive)
    THEN IF changes # None /\ changes.percent_change > 0
         THEN <<Line("conclusion", Bullish)>>
         ELSE <<Line("conclusion", NotRising)>>
    ELSE IF FracLT(avg, NewsNegative)
         THEN IF changes # None /\ changes.percent_change < 0
              THEN <<Line("conclusion", Bearish)>>
              ELSE <<Line("conclusion", HoldingSteady)>>
         ELSE <<Line("conclusion", NoSignal)>>

\* display_results, the sentiment summary; the mean is printed with 3 decimals
Summary(pos_count, neg_count, neu_count, avg) ==
    << [section |-> "summary", positive |-> pos_count, negative |-> neg_count,
        neutral |-> neu_count,
        score |-> RoundHalfEven(10 * avg.num, avg.den)],
       Line("overall",
            IF FracGT(avg, OverallPositive) THEN "Positive Sentiment"
            ELSE IF FracLT(avg, OverallNegative) THEN "Negative Sentiment"
            ELSE "Neutral Sentiment") >>

\* display_results, the stock information: `if current_price` skips None and 0
StockInformation(price, changes) ==
    (IF price # None /\ price.v # 0
     THEN <<[section |-> "price", price |-> price.v]>> ELSE <<>>)
    \o (IF changes # None
        THEN <<[section |-> "change",
                price_change |-> changes.price_change,
                percent_change |-> changes.percent_change,
                trend |-> changes.trend]>>
        ELSE <<>>)

\* the first 80 characters of a title are printed
TitleCut == 80

\* one headline can be printed: item['title'][:80] and
\* item['sentiment']['overall_sentiment'] raise TypeError on None
Printable(item) == item.title.t # "null" /\ item.sentiment # None

Headline(item) ==
    [section |-> "headline",
     title |-> Take(item.title.v, TitleCut) \o <<".", ".", ".">>,
     source |-> Format(item.source),
     sentiment |-> item.sentiment.overall_sentiment]

\* display_results, the headlines up to the first that cannot be printed
RECURSIVE Headlines(_)
Headlines(items) ==
    IF items = <<>> \/ ~Printable(Head(items)) THEN <<>>
    ELSE <<Headline(Head(items))>> \o Headlines(Tail(items))

\* display_results: what it prints, and whether it raised on the way
display_results(company_name, items, pos_count, neg_count, neu_count, avg, price, changes) ==
    LET head == Summary(pos_count, neg_count, neu_count, avg)
                  \o StockInformation(price, changes)
                  \o Headlines(items)
    IN IF \E i \in 1..Len(items) : ~Printable(items[i])
       THEN [raised |-> TRUE, lines |-> head]
       ELSE [raised |-> FALSE,
             lines |-> head \o Conclusion(avg, changes)
                         \o <<Line("disclaimer", "educational purposes only")>>]

-----------------------------------------------------------------------------
(* The state of main_menu while a function-level specification runs *)

ProgIdle ==
    /\ pc = "menu"
    /\ mode = "none"
    /\ companies = <<>>
    /\ queue = <<>>
    /\ search_history = <<>>
    /\ company = <<>>
    /\ articles = <<>>
    /\ lib_scores = <<>>
    /\ sentiments = <<>>
    /\ counts = [positive |-> 0, negative |-> 0, neutral |-> 0]
    /\ avg_sentiment = None
    /\ stock_history = None
    /\ current_price = None
    /\ price_changes = None
    /\ report = <<>>
    /\ trace = <<>>
    /\ invoked = <<>>

RECURSIVE SeqsUpTo(_, _)
\* every sequence over S of length at most n
SeqsUpTo(S, n) ==
    IF n = 0 THEN {<<>>}
    ELSE LET shorter == SeqsUpTo(S, n - 1)
         IN shorter \cup {Append(s, c) : s \in shorter, c \in S}

-----------------------------------------------------------------------------
(* SpecTicker: search_ticker applied to one query and one financial service *)

\* the longest query enumerated character by character
MaxQueryLen == 3

QueryAlphabet == {"a", "B", " ", ".", "-", "1"}

\* queries that reach the length limits and the common-name table
LongQueries ==
    { <<"A", "p", "p", "l", "e">>, <<"a", "p", "p", "l", "e">>,
      <<"M", "e", "t", "a">>, <<"m", "E", "T", "A">>,
      <<"G", "o", "o", "g", "l", "e">>, <<"g", "o", "o", "g", "l", "e">>,
      <<"F", "A", "C", "E", "B", "O", "O", "K">>,
      <<"a", "b", "c", "d", "e">>, <<"a", "b", "c", "d", "e", "f">>,
      <<"a", ".", "b", "-", "c">>, <<"a", ".", "b", "-", "c", "d">>,
      <<"b", "r", "k", " ", "b">>,
      <<" ", "t", "e", "s", "l", "a", " ">>,
      <<"a", "b", " ", "c", "d", " ", "e", "f", " ", "g">>,
      <<"a", "b", " ", "c", "d", " ", "e", "f", " ", "g", "h">>,
      <<"a", "b", "c", "d", "e", "f", "g", "h", "i", "j">>,
      <<"a", "b", "c", "d", "e", "f", "g", "h", "i", "j", "k">> }

\* what the user types at a prompt
RawQueries == SeqsUpTo(QueryAlphabet, MaxQueryLen) \cup LongQueries

\* what reading stock.info can do for one symbol
LookupOutcomes == {InfoWith(Str(AcmeInc)), NoEntity, Raise("lookup")}

\* the symbols search_ticker can send for a query
Candidates(query) ==
    {Upper(query), Replace(Upper(query), " ", <<"-">>),
     Replace(Upper(query), " ", <<".">>), Replace(Upper(query), " ", <<>>)}

\* main.py strips what the user typed before it calls analyze_company, which
\* passes it on to search_ticker: company = input(...).strip()
InitTicker ==
    /\ ProgIdle
    /\ \E raw \in RawQueries :
         LET query == Strip(raw)
         IN \E service \in [Candidates(query) -> LookupOutcomes] :
              arg = [query |-> query, service |-> service]
    /\ ret = Pending
    /\ prev = Pending

ApplySearchTicker ==
    /\ ret = Pending
    /\ ret' = search_ticker(arg.query, arg.service)
    /\ UNCHANGED <<arg, prev>>
    /\ UNCHANGED progVars

NextTicker == ApplySearchTicker

SpecTicker == InitTicker /\ [][NextTicker]_vars

\* the symbols of a service that have a long name
Accepted(service) ==
    {sym \in DOMAIN service :
        /\ service[sym].kind = "info"
        /\ ~service[sym].empty
        /\ service[sym].longName.t # "absent"}

C4Variants(q) ==
    << Upper(q), Replace(Upper(q), " ", <<"-">>), Replace(Upper(q), " ", <<".">>),
       Replace(Upper(q), " ", <<>>) >>

C4Short(v) == Len(v) <= 10

C4Direct(q) ==
    /\ Len(q) <= 5
    /\ LET bare == SelectSeq(q, LAMBDA c : c \notin {".", "-"})
       IN bare # <<>> /\ \A i \in 1..Len(bare) : IsAlphaChar(bare[i])

C4TableHits(q) ==
    {i \in 1..Len(common_names) : Lower(q) = Lower(common_names[i].name)}

\* the first k variants, without those longer than 10 characters
C4Tried(q, k) == SelectSeq(SubSeq(C4Variants(q), 1, k), C4Short)

C4ValidAt(q, service) ==
    {i \in 1..4 : C4Short(C4Variants(q)[i]) /\ C4Variants(q)[i] \in Accepted(service)}

\* C4: search_ticker tries its four steps in order and the first match wins:
\* (1) a query of at most 5 characters, alphabetic without '.' and '-', that
\* the service accepts is returned uppercased, with that one lookup only and
\* without the common-name loop; (2) otherwise a case-insensitive match in the
\* common-name table returns the table's ticker, with no variation looked up;
\* (3) otherwise the first accepted variation of at most 10 characters, in the
\* order uppercase, '-', '.', removed, is returned, the lookups being exactly
\* the variations up to it that are not too long; (4) otherwise the uppercased
\* query is returned unvalidated, after every variation that is not too long
\* was looked up.
C4_SearchTickerOrder ==
    ret # Pending =>
      LET q == arg.query
          service == arg.service
          first == IF C4Direct(q) THEN <<Upper(q)>> ELSE <<>>
          step1 == C4Direct(q) /\ Upper(q) \in Accepted(service)
          step2 == ~step1 /\ C4TableHits(q) # {}
          step3 == ~step1 /\ ~step2 /\ C4ValidAt(q, service) # {}
          k == CHOOSE i \in C4ValidAt(q, service) :
                   \A j \in C4ValidAt(q, service) : i <= j
      IN /\ step1 => /\ ret.ticker = Upper(q)
                     /\ ret.asked = <<Upper(q)>>
                     /\ ~ret.table
                     /\ ret.verified
         /\ step2 => /\ \E i \in C4TableHits(q) : ret.ticker = common_names[i].ticker
                     /\ ret.asked = first
                     /\ ret.table
         /\ step3 => /\ ret.ticker = C4Variants(q)[k]
                     /\ ret.asked = first \o C4Tried(q, k)
                     /\ ret.verified
         /\ (~step1 /\ ~step2 /\ ~step3) =>
                     /\ ret.ticker = Upper(q)
                     /\ ret.asked = first \o C4Tried(q, 4)
                     /\ ~ret.verified

\* C4 witness: a query with a space whose '.' variant is the first the service
\* accepts was resolved by Method 3, after the uppercase and '-' variants failed
C4_Witness ==
    /\ ret # Pending
    /\ arg.query = <<"a", " ", "B">>
    /\ ret.ticker = <<"A", ".", "B">>
    /\ Len(ret.asked) = 3
    /\ <<"A", "-", "B">> \in DOMAIN arg.service
    /\ arg.service[<<"A", "-", "B">>].kind = "raise"

-----------------------------------------------------------------------------
(* SpecNarrative: display_results applied to one mean and one price change *)

\* the largest numerator and denominator of a mean enumerated
MaxMeanNum == 24

MaxMeanDen == 2

\* the largest percent_change enumerated, in hundredths of a percent
MaxPercent == 3

Means == {Frac(n, d) : n \in (-MaxMeanNum)..MaxMeanNum, d \in 1..MaxMeanDen}

PriceChangeWith(pct) ==
    [kind |-> "dict", first_price |-> 10000, last_price |-> 10000 + pct,
     price_change |-> pct, percent_change |-> pct,
     trend |-> IF pct > 0 THEN "UP" ELSE "DOWN"]

InitNarrative ==
    /\ ProgIdle
    /\ \E m \in Means :
         \E p \in {None} \cup {PriceChangeWith(x) : x \in (-MaxPercent)..MaxPercent} :
            arg = [avg_sentiment |-> m, price_changes |-> p]
    /\ ret = Pending
    /\ prev = Pending

ApplyDisplayResults ==
    /\ ret = Pending
    /\ ret' = display_results(<<"A">>, <<>>, 0, 0, 0, arg.avg_sentiment, None,
                              arg.price_changes)
    /\ UNCHANGED <<arg, prev>>
    /\ UNCHANGED progVars

NextNarrative == ApplyDisplayResults

SpecNarrative == InitNarrative /\ [][NextNarrative]_vars

\* the narrative headlines among the printed lines
Picked(lines) ==
    {lines[i].text : i \in {j \in 1..Len(lines) : lines[j].section = "conclusion"}}

\* C1: display_results prints exactly one narrative: Bullish iff m > 0.1 and p
\* is present with percent_change > 0; 'not rising yet' iff m > 0.1 and p is
\* absent or percent_change <= 0; Bearish iff m < -0.1 and p is present with
\* percent_change < 0; 'holding steady' iff m < -0.1 and p is absent or
\* percent_change >= 0; 'no strong signals' iff -0.1 <= m <= 0.1.
C1_NarrativeRule ==
    ret # Pending =>
      LET m == arg.avg_sentiment
          p == arg.price_changes
          pos == m.num * 10 > m.den * 100
          neg == m.num * 10 < -(m.den * 100)
          up == p # None /\ p.percent_change > 0
          down == p # None /\ p.percent_change < 0
          picked == Picked(ret.lines)
      IN /\ ~ret.raised
         /\ Cardinality(picked) = 1
         /\ picked \subseteq Narratives
         /\ (Bullish \in picked) <=> (pos /\ up)
         /\ (NotRising \in picked) <=> (pos /\ ~up)
         /\ (Bearish \in picked) <=> (neg /\ down)
         /\ (HoldingSteady \in picked) <=> (neg /\ ~down)
         /\ (NoSignal \in picked) <=> (~pos /\ ~neg)

\* C1 witness: a mean of -0.2 with a rising price printed 'holding steady'
C1_Witness ==
    /\ ret # Pending
    /\ arg.avg_sentiment = Frac(-20, 1)
    /\ arg.price_changes # None
    /\ arg.price_changes.percent_change = 1
    /\ Picked(ret.lines) = {HoldingSteady}

-----------------------------------------------------------------------------
(* SpecSentiment: analyze_text applied to two texts, one after the other *)

\* the largest compound score enumerated, in hundredths
MaxCompound == 7

LibAnswers ==
    {[textblob_score |-> tb, pos |-> v[1], neg |-> v[2], neu |-> v[3],
      compound |-> c] :
        tb \in {-50, 50}, v \in {<<0, 0, 100>>, <<60, 0, 40>>},
        c \in (-MaxCompound)..MaxCompound}

TextInputs ==
    {[text |-> <<"o", "k">>, lib |-> l] : l \in LibAnswers}
        \cup {[text |-> <<>>, lib |-> l] : l \in {x \in LibAnswers : x.compound = 0}}

InitSentiment ==
    /\ ProgIdle
    /\ arg \in TextInputs \X TextInputs
    /\ ret = Pending
    /\ prev = Pending

AnalyzeFirst ==
    /\ prev = Pending
    /\ prev' = Return(analyze_text(arg[1].text, arg[1].lib))
    /\ UNCHANGED <<arg, ret>>
    /\ UNCHANGED progVars

AnalyzeSecond ==
    /\ prev # Pending
    /\ ret = Pending
    /\ ret' = Return(analyze_text(arg[2].text, arg[2].lib))
    /\ UNCHANGED <<arg, prev>>
    /\ UNCHANGED progVars

NextSentiment == AnalyzeFirst \/ AnalyzeSecond

SpecSentiment == InitSentiment /\ [][NextSentiment]_vars

\* the threshold rule, in hundredths
C2Label(r) ==
    /\ r.vader_compound >= 5 => r.overall_sentiment = "POSITIVE"
    /\ r.vader_compound <= -5 => r.overall_sentiment = "NEGATIVE"
    /\ (-5 < r.vader_compound /\ r.vader_compound < 5)
          => r.overall_sentiment = "NEUTRAL"

\* C2: a result of analyze_text is labelled POSITIVE when its compound score
\* is >= 0.05, NEGATIVE when it is <= -0.05 and NEUTRAL otherwise, and two
\* results with the same vader_compound carry the same label whatever their
\* other fields are.
C2_LabelFromCompound ==
    /\ (prev # Pending /\ prev.value # None) => C2Label(prev.value)
    /\ (ret # Pending /\ ret.value # None) => C2Label(ret.value)
    /\ (prev # Pending /\ ret # Pending /\ prev.value # None /\ ret.value # None
          /\ prev.value.vader_compound = ret.value.vader_compound)
          => prev.value.overall_sentiment = ret.value.overall_sentiment

\* C2 witness: two results with the boundary compound 0.05 and different
\* TextBlob and VADER proportions are both POSITIVE
C2_Witness ==
    /\ prev # Pending /\ ret # Pending
    /\ prev.value # None /\ ret.value # None
    /\ prev.value.vader_compound = 5
    /\ ret.value.vader_compound = 5
    /\ prev.value.textblob_score # ret.value.textblob_score
    /\ prev.value.vader_positive # ret.value.vader_positive
    /\ ret.value.overall_sentiment = "POSITIVE"

-----------------------------------------------------------------------------
(* SpecValidate: validate_ticker applied to one symbol and one lookup *)

\* the longest ticker symbol enumerated
MaxSymbolLen == 3

SymbolAlphabet == {"a", "B", "."}

\* what reading stock.info can do
InfoResponses ==
    {Raise("lookup"), EmptyInfo, NoEntity, InfoWith(Null), InfoWith(Str(<<>>)),
     InfoWith(Str(AcmeInc))}

InitValidate ==
    /\ ProgIdle
    /\ \E symbol \in SeqsUpTo(SymbolAlphabet, MaxSymbolLen) :
         \E response \in InfoResponses :
            arg = [ticker_symbol |-> symbol, response |-> response]
    /\ ret = Pending
    /\ prev = Pending

ApplyValidateTicker ==
    /\ ret = Pending
    /\ ret' = validate_ticker(arg.ticker_symbol,
                              Upper(arg.ticker_symbol) :> arg.response)
    /\ UNCHANGED <<arg, prev>>
    /\ UNCHANGED progVars

NextValidate == ApplyValidateTicker

SpecValidate == InitValidate /\ [][NextValidate]_vars

\* C5 as stated: validate_ticker reports valid exactly when the entity info
\* holds a non-empty long name; an absent or empty long name and a lookup
\* that raises give valid = false.
C5_ValidIffNonEmptyLongName ==
    ret # Pending =>
      /\ "valid" \in DOMAIN ret
      /\ ret.valid <=> /\ arg.response.kind = "info"
                       /\ ~arg.response.empty
                       /\ arg.response.longName.t = "str"
                       /\ arg.response.longName.v # <<>>

\* C5, amended: validate_ticker reports valid exactly when the entity info is
\* not empty and has the long-name key, whatever its value (a null or an empty
\* long name is valid too); a lookup that raises gives valid = false and is
\* not propagated.
C5_ValidIffLongNameKey ==
    ret # Pending =>
      /\ "valid" \in DOMAIN ret
      /\ ret.valid <=> /\ arg.response.kind = "info"
                       /\ ~arg.response.empty
                       /\ arg.response.longName.t # "absent"
      /\ ret.valid => ret.ticker = Upper(arg.ticker_symbol)

\* C5 witness: an entity whose long name is the empty string was looked up
\* and came back valid
C5_Witness ==
    /\ ret # Pending
    /\ arg.response = InfoWith(Str(<<>>))
    /\ arg.ticker_symbol = <<"a", ".", "B">>
    /\ ret.valid
    /\ ret.ticker = <<"A", ".", "B">>

-----------------------------------------------------------------------------
(* SpecNews: get_news_for_company applied to one HTTP outcome *)

\* the longest articles array enumerated
MaxArticles == 2

Article(title, description, source) ==
    [title |-> title, description |-> description, source |-> source]

Source(name) == [t |-> "dict", name |-> name]

GoodArticle == Article(Str(<<"T">>), Str(<<"D">>), Source(Str(<<"S">>)))

\* every shape of an article record: each key absent, null or a string
ArticleShapes ==
    {Article(t, d, s) :
        t \in {Absent, Null, Str(<<"T">>)},
        d \in {Absent, Null, Str(<<"D">>)},
        s \in {Absent, Null, Source(Absent), Source(Null), Source(Str(<<"S">>))}}

Bodies ==
    {[json |-> "invalid", articles |-> Absent],
     [json |-> "other", articles |-> Absent],
     [json |-> "object", articles |-> Absent],
     [json |-> "object", articles |-> Null]}
    \cup {[json |-> "object", articles |-> [t |-> "list", v |-> a]] :
            a \in SeqsUpTo({GoodArticle, Article(Null, Absent, Source(Absent))},
                           MaxArticles)}

HttpOutcomes ==
    {Raise("ConnectionError")}
    \cup {[kind |-> "response", status_code |-> c, body |-> b] :
            c \in {200, 201, 401, 429, 500}, b \in Bodies}

InitNews ==
    /\ ProgIdle
    /\ \E name \in {<<"A">>, <<"T", "e", "s", "l", "a">>, <<>>} :
         \E response \in HttpOutcomes :
            arg = [company_name |-> name, response |-> response]
    /\ ret = Pending
    /\ prev = Pending

ApplyGetNews ==
    /\ ret = Pending
    /\ ret' = get_news_for_company(arg.company_name, arg.response)
    /\ UNCHANGED <<arg, prev>>
    /\ UNCHANGED progVars

NextNews == ApplyGetNews

SpecNews == InitNews /\ [][NextNews]_vars

\* C9: get_news_for_company never raises: an exception of the request, a
\* status other than 200 and a body that cannot be parsed give the empty
\* list; only a status 200 with a parseable body gives the body's articles.
C9_NewsNeverRaises ==
    ret # Pending =>
      LET r == arg.response
          parsed == /\ r.kind = "response"
                    /\ r.status_code = 200
                    /\ r.body.json = "object"
                    /\ r.body.articles.t = "list"
      IN /\ ret.kind = "return"
         /\ parsed => ret.value = r.body.articles.v
         /\ ~parsed => ret.value = <<>>

\* C9 witness: a 401 whose body carries articles returned the empty list
C9_Witness ==
    /\ ret # Pending
    /\ arg.response.kind = "response"
    /\ arg.response.status_code = 401
    /\ arg.response.body.articles.t = "list"
    /\ Len(arg.response.body.articles.v) = 2
    /\ ret = Return(<<>>)

-----------------------------------------------------------------------------
(* SpecPrice: calculate_price_change applied to one price history *)

\* the longest price history enumerated
MaxBars == 3

\* closes in mills: a cent apart, half a cent apart, and a mill apart at $30
ClosePrices == {3, 200, 1000, 1005, 1015, 30000, 30001, 30004}

InitPrice ==
    /\ ProgIdle
    /\ arg \in {None} \cup {DataFrame(c) : c \in SeqsUpTo(ClosePrices, MaxBars)}
    /\ ret = Pending
    /\ prev = Pending

ApplyCalculatePriceChange ==
    /\ ret = Pending
    /\ ret' = Return(calculate_price_change(arg))
    /\ UNCHANGED <<arg, prev>>
    /\ UNCHANGED progVars

NextPrice == ApplyCalculatePriceChange

SpecPrice == InitPrice /\ [][NextPrice]_vars

Abs(x) == IF x < 0 THEN -x ELSE x

\* r is num / den rounded to an integer: no integer is nearer
C10Nearest(r, num, den) == 2 * Abs(num - r * den) <= den

\* C10: for a non-empty history the result is computed from the close of the
\* first and of the last bar: price_change is last - first and percent_change
\* is (last - first) / first * 100, each rounded to 2 decimals, and the trend
\* is UP exactly when the unrounded last - first is > 0, DOWN otherwise. An
\* absent or empty history gives an absent result.
C10_PriceChange ==
    ret # Pending =>
      IF arg = None \/ arg.close = <<>> THEN ret.value = None
      ELSE LET first == arg.close[1]
               last == arg.close[Len(arg.close)]
               r == ret.value
           IN /\ r # None
              /\ C10Nearest(r.price_change, last - first, 10)
              /\ C10Nearest(r.percent_change, (last - first) * 10000, first)
              /\ C10Nearest(r.first_price, first, 10)
              /\ C10Nearest(r.last_price, last, 10)
              /\ (r.trend = "UP") <=> (last - first > 0)
              /\ (r.trend = "DOWN") <=> (last - first <= 0)

\* C10 witness: a history whose middle bar is its highest and whose last close
\* is a mill above the first gave a change of 0.00, 0.00 % and the trend UP
C10_Witness ==
    /\ ret # Pending
    /\ arg = DataFrame(<<30000, 30004, 30001>>)
    /\ ret.value.price_change = 0
    /\ ret.value.percent_change = 0
    /\ ret.value.trend = "UP"

-----------------------------------------------------------------------------
(* Spec: main_menu and analyze_company *)

\* the most analyses of one session
MaxHistory == 3

\* what the user types at "Enter ticker or company name: "
SingleInputs == {<<" ", "A", " ">>, <<" ", " ">>}

\* what the user types at "Select company (1-8): "
QuickInputs == {<<"3">>, <<" ", "3">>, <<"9">>}

\* choice 2's companies dict
QuickCompanies ==
    (<<"1">> :> <<"A", "p", "p", "l", "e">>)
    @@ (<<"2">> :> <<"M", "i", "c", "r", "o", "s", "o", "f", "t">>)
    @@ (<<"3">> :> <<"T", "e", "s", "l", "a">>)
    @@ (<<"4">> :> <<"A", "m", "a", "z", "o", "n">>)

\* what the user types at "Companies/Tickers: "
BatchInputs ==
    {<<"A", ",", "B">>, <<" ", "B", " ", ",", ",", "A">>, <<"B">>, <<" ">>,
     <<"A", ",", " ", "B", ",", "A">>}

LongTitle == [i \in 1..(TitleCut + 1) |-> "x"]

\* the article records of the news service: every key present, absent or null
NewsArticles ==
    {GoodArticle,
     Article(Null, Str(<<"D">>), Source(Str(<<"S">>))),
     Article(Str(<<"T">>), Str(<<"D">>), Null),
     Article(Absent, Absent, Absent),
     Article(Str(<<"T">>), Null, Source(Null)),
     Article(Str(LongTitle), Str(<<"D">>), Source(Absent))}

\* the compound scores VADER gives, in hundredths
Compounds == {-20, 0, 20}

LibAnswer(c) ==
    [textblob_score |-> c, pos |-> IF c > 0 THEN 30 ELSE 0,
     neg |-> IF c < 0 THEN 30 ELSE 0, neu |-> IF c = 0 THEN 100 ELSE 70,
     compound |-> c]

\* for article in articles[:10]
MaxScored == 10

\* sentiments[:5]
MaxShown == 5

\* what requests.get can do for one analysis
NewsOutcomes ==
    {Raise("ConnectionError"),
     [kind |-> "response", status_code |-> 429,
      body |-> [json |-> "object", articles |-> Absent]]}
    \cup {[kind |-> "response", status_code |-> 200,
           body |-> [json |-> "object", articles |-> [t |-> "list", v |-> a]]] :
             a \in SeqsUpTo(NewsArticles, MaxArticles)
                     \cup {[i \in 1..n |-> GoodArticle] :
                              n \in {MaxScored, MaxScored + 1}}}

\* what stock.history(start, end) can do
HistoryOutcomes ==
    {Raise("network"), DataFrame(<<>>), DataFrame(<<30000, 30001>>),
     DataFrame(<<1015, 1000>>), DataFrame(<<1000, 1015>>)}

\* what stock.history(period='1d') can do
PriceOutcomes == {Raise("network"), DataFrame(<<>>), DataFrame(<<1005>>)}

\* the financial service knows no symbol, or every symbol asked
Services(query) ==
    {<<>>, [sym \in Candidates(Strip(query)) |-> InfoWith(Str(AcmeInc))]}

NoCounts == [positive |-> 0, negative |-> 0, neutral |-> 0]

Init ==
    /\ ProgIdle
    /\ arg = Pending
    /\ ret = Pending
    /\ prev = Pending

\* A plausible slip: the entry is appended only when an analysis succeeds
AppendHistory_skipped(history, name) == history

\* analyze_company: self.search_history.append({...}). The timestamp is the
\* wall clock and is left out.
AppendHistory(history, name) == Append(history, [company |-> name])

\* analyze_company is called: the append is its first statement
Call(name, m) ==
    /\ Len(search_history) < MaxHistory
    /\ pc' = "news"
    /\ mode' = m
    /\ company' = name
    /\ invoked' = Append(invoked, name)
    /\ search_history' = AppendHistory(search_history, name)
    /\ trace' = <<"append">>
    /\ UNCHANGED <<articles, lib_scores, sentiments, counts, avg_sentiment,
                   stock_history, current_price, price_changes, report>>

\* the menu prints a message and loops
Again == UNCHANGED progVars

\* choice '0'
MenuExit ==
    /\ pc = "menu"
    /\ pc' = "exit"
    /\ UNCHANGED <<mode, companies, queue, search_history, company, articles,
                   lib_scores, sentiments, counts, avg_sentiment, stock_history,
                   current_price, price_changes, report, trace, invoked>>
    /\ UNCHANGED fnVars

\* choice '1'
MenuSingle ==
    /\ pc = "menu"
    /\ \E raw \in SingleInputs :
         LET name == Strip(raw)
         IN IF name # <<>>
            THEN Call(name, "single") /\ UNCHANGED <<companies, queue>>
            ELSE Again
    /\ UNCHANGED fnVars

\* choice '2'
MenuQuick ==
    /\ pc = "menu"
    /\ \E raw \in QuickInputs :
         LET quick_choice == Strip(raw)
         IN IF quick_choice \in DOMAIN QuickCompanies
            THEN Call(QuickCompanies[quick_choice], "quick")
                   /\ UNCHANGED <<companies, queue>>
            ELSE Again
    /\ UNCHANGED fnVars

\* [c.strip() for c in companies_input.split(',')]
StripAll(fields) == [i \in 1..Len(fields) |-> Strip(fields[i])]

\* choice '3', up to the for loop
MenuBatch ==
    /\ pc = "menu"
    /\ \E raw \in BatchInputs :
         LET companies_input == Strip(raw)
             names == StripAll(Split(companies_input, ","))
         IN IF companies_input # <<>>
            THEN /\ Len(search_history) + Len(names) <= MaxHistory
                 /\ pc' = "batch"
                 /\ mode' = "batch"
                 /\ companies' = names
                 /\ queue' = names
                 /\ UNCHANGED <<search_history, company, articles, lib_scores,
                                sentiments, counts, avg_sentiment, stock_history,
                                current_price, price_changes, report, trace,
                                invoked>>
            ELSE Again
    /\ UNCHANGED fnVars

\* choice '3', one turn of `for company in companies`
BatchNext ==
    /\ pc = "batch"
    /\ queue # <<>>
    /\ Call(Head(queue), "batch")
    /\ queue' = Tail(queue)
    /\ UNCHANGED companies
    /\ UNCHANGED fnVars

\* choice '3', the for loop is over
BatchEnd ==
    /\ pc = "batch"
    /\ queue = <<>>
    /\ pc' = "menu"
    /\ mode' = "none"
    /\ companies' = <<>>
    /\ UNCHANGED <<queue, search_history, company, articles, lib_scores,
                   sentiments, counts, avg_sentiment, stock_history,
                   current_price, price_changes, report, trace, invoked>>
    /\ UNCHANGED fnVars

\* choice '4' prints search_history; any other choice prints a message
MenuOther ==
    /\ pc = "menu"
    /\ Again
    /\ UNCHANGED fnVars

\* the process ends with a traceback: nothing catches the exception
Crash ==
    /\ pc' = "crashed"
    /\ UNCHANGED <<mode, companies, queue, search_history, company, invoked>>

\* A plausible slip: an empty article list goes on to the scoring
AfterNews_always_scores(found) == "score"

\* analyze_company: `if not articles: return`
AfterNews(found) == IF found = <<>> THEN "done" ELSE "score"

\* the texts the scoring loop will hand to the sentiment libraries
Texts(found) == {ArticleText(found[i]) : i \in 1..Min(Len(found), MaxScored)}

\* analyze_company, STEP 1. The sentiment libraries are functions of the
\* text: what they answer for each text of articles[:10] is drawn here and
\* read by the scoring loop.
FetchNews ==
    /\ pc = "news"
    /\ \E response \in NewsOutcomes :
         LET r == get_news_for_company(company, response)
         IN /\ trace' = Append(trace, "news")
            /\ IF r.kind = "raise"
               THEN /\ Crash
                    /\ UNCHANGED <<articles, lib_scores>>
               ELSE /\ articles' = r.value
                    /\ pc' = AfterNews(r.value)
                    /\ lib_scores' \in [Texts(r.value) ->
                                          {LibAnswer(c) : c \in Compounds}]
                    /\ UNCHANGED <<mode, companies, queue, search_history,
                                   company, invoked>>
    /\ UNCHANGED <<sentiments, counts, avg_sentiment, stock_history,
                   current_price, price_changes, report>>
    /\ UNCHANGED fnVars

\* A plausible slip: the final else is left out and a neutral label is not
\* counted
Count_without_neutral(c, label) ==
    IF label = "POSITIVE" THEN [c EXCEPT !.positive = @ + 1]
    ELSE IF label = "NEGATIVE" THEN [c EXCEPT !.negative = @ + 1]
    ELSE c

\* the bucket a label is counted in: 'POSITIVE' in label, 'NEGATIVE' in label
Count(c, label) ==
    IF label = "POSITIVE" THEN [c EXCEPT !.positive = @ + 1]
    ELSE IF label = "NEGATIVE" THEN [c EXCEPT !.negative = @ + 1]
    ELSE [c EXCEPT !.neutral = @ + 1]

\* analyze_company, STEP 2: one turn of `for article in articles[:10]`.
\* result['sentiment']['overall_sentiment'] raises TypeError on a None
\* sentiment.
ScoreArticle ==
    /\ pc = "score"
    /\ Len(sentiments) < Len(Take(articles, MaxScored))
    /\ LET i == Len(sentiments) + 1
           result == analyze_article(articles[i],
                                     lib_scores[ArticleText(articles[i])])
       IN /\ trace' = Append(trace, "score")
          /\ IF result.kind = "raise" \/ result.sentiment = None
             THEN /\ Crash
                  /\ UNCHANGED <<sentiments, counts>>
             ELSE /\ sentiments' = Append(sentiments, result)
                  /\ counts' = Count(counts, result.sentiment.overall_sentiment)
                  /\ UNCHANGED <<pc, mode, companies, queue, search_history,
                                 company, invoked>>
    /\ UNCHANGED <<articles, lib_scores, avg_sentiment, stock_history,
                   current_price, price_changes, report>>
    /\ UNCHANGED fnVars

RECURSIVE SumCompound(_)
\* sum(s['sentiment']['vader_compound'] for s in sentiments)
SumCompound(items) ==
    IF items = <<>> THEN 0
    ELSE Head(items).sentiment.vader_compound + SumCompound(Tail(items))

\* analyze_company: avg_sentiment = sum(...) / len(sentiments), after the
\* loop; ZeroDivisionError for no sentiments
Average ==
    /\ pc = "score"
    /\ Len(sentiments) = Len(Take(articles, MaxScored))
    /\ IF Len(sentiments) = 0
       THEN /\ Crash
            /\ UNCHANGED avg_sentiment
       ELSE /\ avg_sentiment' = Frac(SumCompound(sentiments), Len(sentiments))
            /\ pc' = "stock"
            /\ UNCHANGED <<mode, companies, queue, search_history, company,
                           invoked>>
    /\ UNCHANGED <<articles, lib_scores, sentiments, counts, stock_history,
                   current_price, price_changes, report, trace>>
    /\ UNCHANGED fnVars

\* analyze_company, STEP 3: get_stock_data(company_name, days=7)
FetchStock ==
    /\ pc = "stock"
    /\ \E service \in Services(company), outcome \in HistoryOutcomes :
         LET ticker == get_stock_ticker(company, service).ticker
             r == get_stock_data(company, service, ticker :> outcome)
         IN /\ trace' = trace \o <<"ticker", "history">>
            /\ IF r.kind = "raise"
               THEN /\ Crash
                    /\ UNCHANGED stock_history
               ELSE /\ stock_history' = r.value
                    /\ pc' = "price"
                    /\ UNCHANGED <<mode, companies, queue, search_history,
                                   company, invoked>>
    /\ UNCHANGED <<articles, lib_scores, sentiments, counts, avg_sentiment,
                   current_price, price_changes, report>>
    /\ UNCHANGED fnVars

\* analyze_company, STEP 3: get_current_price(company_name), then
\* price_changes from stock_history
FetchPrice ==
    /\ pc = "price"
    /\ \E service \in Services(company), outcome \in PriceOutcomes :
         LET ticker == get_stock_ticker(company, service).ticker
             r == get_current_price(company, service, ticker :> outcome)
         IN /\ trace' = trace \o <<"ticker", "price">>
            /\ IF r.kind = "raise"
               THEN /\ Crash
                    /\ UNCHANGED <<current_price, price_changes>>
               ELSE /\ current_price' = r.value
                    /\ price_changes' = IF stock_history # None
                                        THEN calculate_price_change(stock_history)
                                        ELSE None
                    /\ pc' = "display"
                    /\ UNCHANGED <<mode, companies, queue, search_history,
                                   company, invoked>>
    /\ UNCHANGED <<articles, lib_scores, sentiments, counts, avg_sentiment,
                   stock_history, report>>
    /\ UNCHANGED fnVars

\* analyze_company: self.display_results(company_name, sentiments[:5], ...)
Display ==
    /\ pc = "display"
    /\ LET r == display_results(company, Take(sentiments, MaxShown),
                                counts.positive, counts.negative, counts.neutral,
                                avg_sentiment, current_price, price_changes)
       IN /\ report' = r.lines
          /\ trace' = Append(trace, "display")
          /\ IF r.raised
             THEN Crash
             ELSE /\ pc' = "done"
                  /\ UNCHANGED <<mode, companies, queue, search_history, company,
                                 invoked>>
    /\ UNCHANGED <<articles, lib_scores, sentiments, counts, avg_sentiment,
                   stock_history, current_price, price_changes>>
    /\ UNCHANGED fnVars

\* analyze_company returns: its locals are gone. In the for loop of choice 3
\* the pause follows, then the next company.
ReturnToMenu ==
    /\ pc = "done"
    /\ pc' = IF mode = "batch" THEN "batch" ELSE "menu"
    /\ mode' = IF mode = "batch" THEN "batch" ELSE "none"
    /\ company' = <<>>
    /\ articles' = <<>>
    /\ lib_scores' = <<>>
    /\ sentiments' = <<>>
    /\ counts' = NoCounts
    /\ avg_sentiment' = None
    /\ stock_history' = None
    /\ current_price' = None
    /\ price_changes' = None
    /\ report' = <<>>
    /\ trace' = <<>>
    /\ UNCHANGED <<companies, queue, search_history, invoked>>
    /\ UNCHANGED fnVars

Next ==
    \/ MenuExit
    \/ MenuSingle
    \/ MenuQuick
    \/ MenuBatch
    \/ BatchNext
    \/ BatchEnd
    \/ MenuOther
    \/ FetchNews
    \/ ScoreArticle
    \/ Average
    \/ FetchStock
    \/ FetchPrice
    \/ Display
    \/ ReturnToMenu

Spec == Init /\ [][Next]_vars

-----------------------------------------------------------------------------
(* The claims about analyze_company and main_menu *)

Last(s) == s[Len(s)]

\* an analysis is under way or has just ended
InAnalysis == pc \in {"news", "score", "stock", "price", "display", "done", "crashed"}

\* C3: an analysis whose news fetch returns no article ends there: the calls
\* made are the history append and then the news fetch, nothing was scored,
\* no ticker was resolved, no stock history or price was fetched and nothing
\* was rendered; the search history holds one new entry for the request,
\* which was there before the news fetch started.
C3_NoArticlesAborts ==
    /\ InAnalysis =>
         /\ Len(search_history) = Len(invoked)
         /\ Last(search_history).company = company
         /\ Len(trace) >= 1 /\ trace[1] = "append"
    /\ (InAnalysis /\ pc # "news" /\ articles = <<>>) =>
         /\ pc = "done"
         /\ trace = <<"append", "news">>
         /\ sentiments = <<>>
         /\ counts = NoCounts
         /\ avg_sentiment = None
         /\ stock_history = None
         /\ current_price = None
         /\ price_changes = None
         /\ report = <<>>

\* C3 witness: the second analysis of a session found no article and ended
\* with two entries in the history
C3_Witness ==
    /\ pc = "done"
    /\ articles = <<>>
    /\ trace = <<"append", "news">>
    /\ Len(search_history) = 2
    /\ search_history[2].company = company

Missing(field) == field.t \in {"absent", "null"}

\* title, description, source or source name is missing
HasMissing(article) ==
    \/ Missing(article.title)
    \/ Missing(article.description)
    \/ Missing(article.source)
    \/ (article.source.t = "dict" /\ Missing(article.source.name))

C6Text(field) == IF Missing(field) THEN <<>> ELSE field.v

\* C6 as stated: an article record with a missing title, description, source
\* or source name (absent or null) is scored and rendered without raising;
\* the missing title or description is the empty string in the scored text
\* and the title and source shown are 'No title' and 'Unknown'.
C6_MissingFieldsFallBack ==
    /\ (pc = "crashed") =>
         \A i \in 1..Len(articles) : ~HasMissing(articles[i])
    /\ \A i \in 1..Len(sentiments) :
         /\ ArticleText(articles[i])
              = C6Text(articles[i].title) \o <<" ">> \o C6Text(articles[i].description)
         /\ Missing(articles[i].title) => sentiments[i].title = Str(NoTitle)
         /\ (Missing(articles[i].source) \/ Missing(articles[i].source.name))
              => sentiments[i].source = Str(Unknown)

\* the part of C6 the code keeps: a key that is absent falls back to the empty
\* string in the text and to 'No title' and 'Unknown' in the headline
C6_AbsentKeysFallBack ==
    \A i \in 1..Len(sentiments) :
      /\ articles[i].title = Absent => sentiments[i].title = Str(NoTitle)
      /\ articles[i].source = Absent => sentiments[i].source = Str(Unknown)
      /\ (articles[i].source.t = "dict" /\ articles[i].source.name = Absent)
           => sentiments[i].source = Str(Unknown)
      /\ (articles[i].title = Absent /\ articles[i].description = Absent)
           => ArticleText(articles[i]) = <<" ">>

\* C7 as stated: in batch mode with n names analyze_company is called n
\* times, in input order, one ending before the next starts, and afterwards
\* the history holds n new entries in that order, whether an analysis found
\* articles or not.
C7_BatchInOrder ==
    /\ (mode = "batch" /\ pc # "menu") =>
         LET n == Len(companies)
             started == n - Len(queue)
         IN /\ started <= Len(invoked)
            /\ SubSeq(invoked, Len(invoked) - started + 1, Len(invoked))
                 = SubSeq(companies, 1, started)
            /\ [i \in 1..started |->
                  search_history[Len(search_history) - started + i].company]
                 = SubSeq(companies, 1, started)
    /\ (mode = "batch" /\ pc = "crashed") => queue = <<>>

\* the part of C7 the loop keeps: the analyses started so far are the first
\* names of the batch, in input order, each with its history entry
C7_BatchPrefixInOrder ==
    (mode = "batch" /\ pc # "menu") =>
       LET n == Len(companies)
           started == n - Len(queue)
       IN /\ started <= Len(invoked)
          /\ SubSeq(invoked, Len(invoked) - started + 1, Len(invoked))
               = SubSeq(companies, 1, started)
          /\ [i \in 1..started |->
                search_history[Len(search_history) - started + i].company]
               = SubSeq(companies, 1, started)

Sections(lines) == {lines[i].section : i \in 1..Len(lines)}

HeadlineCount(lines) ==
    Cardinality({i \in 1..Len(lines) : lines[i].section = "headline"})

\* the stock lookups of this analysis are over
StockDone == \E i \in 1..Len(trace) : trace[i] = "price"

\* C8 as stated: when the stock history or the current price cannot be
\* fetched, the fetchers return an absent value instead of raising and
\* analyze_company still renders the full report (summary, headlines,
\* narrative), with the price change absent when the history is.
C8_StockFailureStillRenders ==
    (StockDone /\ pc \in {"done", "crashed"}
       /\ (stock_history = None \/ current_price = None)) =>
         /\ pc = "done"
         /\ stock_history = None => price_changes = None
         /\ {"summary", "overall", "headline", "conclusion"} \subseteq Sections(report)
         /\ HeadlineCount(report) = Min(Len(sentiments), MaxShown)
         /\ stock_history = None => "change" \notin Sections(report)
         /\ current_price = None => "price" \notin Sections(report)

\* the part of C8 the fetchers keep: a failed stock lookup gives an absent
\* value, never an exception, and display_results is entered with the price
\* change absent
C8_StockFailureIsAbsent ==
    /\ (pc = "crashed") => (Last(trace) \in {"score", "display"})
    /\ (pc \in {"display", "done"} /\ stock_history = None) => price_changes = None

\* the part of C8 that holds whatever the stock side does: when every headline
\* to show has a title, a failed stock lookup still ends in the full report
C8_RendersWhenTitlesPresent ==
    (StockDone /\ pc \in {"done", "crashed"}
       /\ (stock_history = None \/ current_price = None)
       /\ \A i \in 1..Min(Len(sentiments), MaxShown) : sentiments[i].title.t = "str") =>
         /\ pc = "done"
         /\ stock_history = None => price_changes = None
         /\ {"summary", "overall", "headline", "conclusion"} \subseteq Sections(report)
         /\ HeadlineCount(report) = Min(Len(sentiments), MaxShown)
         /\ stock_history = None => "change" \notin Sections(report)
         /\ current_price = None => "price" \notin Sections(report)

-----------------------------------------------------------------------------
(* The claims about the aggregation and about trend and narrative *)

\* min(n, 10) for the article list of the analysis
C11Scored == Min(Len(articles), MaxScored)

\* what VADER answered for the i-th article of the list
C11Compound(i) == lib_scores[ArticleText(articles[i])].compound

RECURSIVE C11Sum(_)
\* the compound scores of the first k articles of the list, added up
C11Sum(k) == IF k = 0 THEN 0 ELSE C11Compound(k) + C11Sum(k - 1)

C11Labelled(label) ==
    {i \in 1..Len(sentiments) : sentiments[i].sentiment.overall_sentiment = label}

\* the mean has been computed in this analysis
C11Averaged == avg_sentiment # None

C11_MixedWitness ==
    /\ pc = "display"
    /\ Len(articles) = 2
    /\ counts = [positive |-> 1, negative |-> 0, neutral |-> 1]
    /\ avg_sentiment = Frac(20, 2)

C12Lines(name) == {i \in 1..Len(report) : report[i].section = name}

\* C12 as stated: the trend and the narrative of one report agree on the
\* direction of the price: with a mean compound score above 0.1 and the trend
\* UP printed, the narrative is 'Bullish', never 'positive news but stock not
\* rising yet'.
C12_TrendAndNarrativeAgree ==
    \A i \in C12Lines("change"), j \in C12Lines("conclusion") :
       (FracGT(avg_sentiment, NewsPositive) /\ report[i].trend = "UP")
          => report[j].text = Bullish

\* the part of C12 the code keeps: they agree whenever the percent change
\* printed is not 0.00
C12_AgreeUnlessPercentZero ==
    \A i \in C12Lines("change"), j \in C12Lines("conclusion") :
       (FracGT(avg_sentiment, NewsPositive) /\ report[i].trend = "UP"
          /\ report[i].percent_change # 0)
          => report[j].text = Bullish

\* a report where trend and narrative do agree: a week that rose by 1.5%
C12_BullishReached ==
    \E i \in C12Lines("change"), j \in C12Lines("conclusion") :
       /\ report[i].trend = "UP"
       /\ report[i].percent_change = 150
       /\ report[j].text = Bullish

=============================================================================
